---- MODULE Spec2Model ----
(***************************************************************************)
(* kubehelp: collect pod and event state from a namespace, compile a       *)
(* diagnostic report, send it to an LLM provider.                          *)
(*                                                                         *)
(* Time is counted in whole seconds.  Text is modelled by TLA+ strings;    *)
(* one sb.WriteString(fmt.Sprintf(format, args...)) of the report builder  *)
(* is one line record [kind |-> the format, f |-> the rendered arguments]. *)
(***************************************************************************)
EXTENDS Integers, Sequences, FiniteSets, TLC

VARIABLES
    clock,       \* time.Now(), in seconds
    podItems,    \* the pods of the namespace as the cluster API lists them
    eventItems,  \* the events of the namespace as the cluster API lists them
    workloads,   \* the workload prefixes of the request
    eventsNow,   \* the time.Now() read by collectEvents (0 before it ran)
    data,        \* the *DiagnosticData of the invocation
    prompt,      \* the report built from data
    compiles,    \* how many times BuildDiagnosticPrompt ran on data
    entry,       \* "cli" (runDiagnose) or "server" (diagnoseHandler)
    req,         \* the invocation as given: flags, or the HTTP request
    llm,         \* the backend identifier after defaulting
    env,         \* the process environment and ambient credentials
    homeConfig,  \* the kubeconfig file at ~/.kube/config
    pc,          \* where the invocation stands
    stages,      \* the stages started so far, each with its outcome
    calls,       \* the cluster API calls issued so far
    session,     \* the *k8s.Client of the invocation
    partial,     \* CollectDiagnostics' data while it is being filled
    provider,    \* the llm.Provider of the invocation
    requests,    \* the requests sent to the backend so far
    exchanges,   \* what the invocation asked of the outside, and what came back
    cancelled,   \* the call that was in flight when the caller gave up ("" if it did not)
    handlers,    \* the diagnoseHandler calls the server is running side by side
    result       \* what the caller gets: the error, or the HTTP response

dataVars == <<clock, podItems, eventItems, workloads, eventsNow, data, prompt, compiles>>
pipeVars == <<entry, req, llm, env, homeConfig, pc, stages, calls, session,
              partial, provider, requests, exchanges, cancelled, handlers, result>>
vars == <<dataVars, pipeVars>>

-----------------------------------------------------------------------------
(* Program constants *)

Minute == 60
Hour == 3600
Day == 24 * Hour
MsgLimit == 80
MsgKeep == 77
Ellipsis == "..."
\* http.Client.Timeout of the Ollama provider; of the OpenAI and Gemini
\* providers, which is also the context.WithTimeout of the Vertex AI provider
OllamaTimeout == 120
RequestTimeout == 60
\* a context without a deadline, a client without a timeout
NoDeadline == "none"

(* Bounds of the model *)

MaxPods == 2
MaxEvents == 2
MaxDelay == 1
MaxCompiles == 2
MaxHandlers == 2

StartTime == 3 * Day

-----------------------------------------------------------------------------
(* Sequence helpers *)

Range(s) == {s[i] : i \in 1..Len(s)}

RECURSIVE Flatten(_)
Flatten(ss) == IF ss = <<>> THEN <<>> ELSE Head(ss) \o Flatten(Tail(ss))

RECURSIVE SumSeq(_)
SumSeq(s) == IF s = <<>> THEN 0 ELSE Head(s) + SumSeq(Tail(s))

RECURSIVE Join(_, _)
Join(s, sep) ==
    IF s = <<>> THEN ""
    ELSE IF Len(s) = 1 THEN s[1]
    ELSE s[1] \o sep \o Join(Tail(s), sep)

\* the subsequences (order kept) of the sequence pool, of length at most n
RECURSIVE SubSeqsOf(_, _)
SubSeqsOf(pool, n) ==
    IF pool = <<>> \/ n = 0 THEN {<<>>}
    ELSE SubSeqsOf(Tail(pool), n)
         \cup {<<Head(pool)>> \o s : s \in SubSeqsOf(Tail(pool), n - 1)}

\* strings.Contains
Contains(str, sub) ==
    \E i \in 1..(Len(str) - Len(sub) + 1) : SubSeq(str, i, i + Len(sub) - 1) = sub

\* the part of str before the first occurrence of sep; str when there is none
Before(str, sep) ==
    IF Contains(str, sep)
    THEN LET at == CHOOSE i \in 1..Len(str) :
                       /\ SubSeq(str, i, i + Len(sep) - 1) = sep
                       /\ \A j \in 1..(i - 1) : SubSeq(str, j, j + Len(sep) - 1) # sep
         IN  SubSeq(str, 1, at - 1)
    ELSE str

\* a text of n characters; the character at position i is the digit i % 10
Digits == "1234567890"
RECURSIVE Repeat(_, _)
Repeat(str, k) == IF k = 0 THEN "" ELSE str \o Repeat(str, k - 1)
Text(n) == Repeat(Digits, n \div Len(Digits)) \o SubSeq(Digits, 1, n % Len(Digits))

-----------------------------------------------------------------------------
(* What the cluster API can list: corev1.Pod and corev1.Event items *)

Unset == [set |-> FALSE, reason |-> "", message |-> ""]
StateRunning == [running |-> TRUE, waiting |-> Unset, terminated |-> Unset]
StateWaiting(r, m) ==
    [running |-> FALSE, waiting |-> [set |-> TRUE, reason |-> r, message |-> m],
     terminated |-> Unset]
StateTerminated(r, m) ==
    [running |-> FALSE, waiting |-> Unset,
     terminated |-> [set |-> TRUE, reason |-> r, message |-> m]]
StateNone == [running |-> FALSE, waiting |-> Unset, terminated |-> Unset]

K8sContainer(n, rdy, rc, st) ==
    [name |-> n, ready |-> rdy, restartCount |-> rc, image |-> n \o ":1.0", state |-> st]
K8sCondition(t, s, r, m) == [type |-> t, status |-> s, reason |-> r, message |-> m]
K8sPod(n, ph, node, created, css, conds) ==
    [name |-> n, phase |-> ph, nodeName |-> node, creationTimestamp |-> created,
     containerStatuses |-> css, conditions |-> conds]
K8sEvent(t, r, m, k, n, first, last, c) ==
    [type |-> t, reason |-> r, message |-> m, kind |-> k, name |-> n,
     firstTimestamp |-> first, lastTimestamp |-> last, count |-> c]

BackOffMsg == "back-off 5m0s restarting failed container=app pod=worker-1 " \o Text(MsgLimit)

PodPool == <<
    \* healthy, its only condition is positive and carries no reason
    K8sPod("worker-1", "Running", "node-b", StartTime - 45,
           <<K8sContainer("app", TRUE, 0, StateRunning)>>,
           <<K8sCondition("Ready", "True", "", "")>>),
    \* crash-looping container, negative condition
    K8sPod("api-server-7f", "Running", "node-a", StartTime - 90,
           <<K8sContainer("api", FALSE, 3, StateWaiting("CrashLoopBackOff", BackOffMsg))>>,
           <<K8sCondition("Initialized", "True", "", ""),
             K8sCondition("Ready", "False", "ContainersNotReady", "containers with unready status: [api]"),
             K8sCondition("ContainersReady", "Unknown", "", "")>>),
    \* unschedulable: no container statuses yet, the condition says why
    K8sPod("web-0", "Pending", "", StartTime - 7200,
           <<>>,
           <<K8sCondition("PodScheduled", "False", "Unschedulable", "0/3 nodes are available")>>),
    \* a healthy sidecar next to a container killed once, no conditions listed
    K8sPod("api-db-0", "Running", "node-a", StartTime - 172800,
           <<K8sContainer("proxy", TRUE, 0, StateRunning),
             K8sContainer("db", TRUE, 1, StateRunning)>>,
           <<>>),
    \* healthy containers, a positive condition that carries a reason
    K8sPod("cache-1", "Running", "node-c", StartTime - 59,
           <<K8sContainer("redis", TRUE, 0, StateRunning)>>,
           <<K8sCondition("Ready", "True", "PodCompleted", "")>>),
    \* waiting with nothing to say, and a container with no state indicator
    K8sPod("ap", "Pending", "node-b", StartTime,
           <<K8sContainer("init", FALSE, 0, StateWaiting("", "")),
             K8sContainer("main", FALSE, 0, StateNone)>>,
           <<>>),
    \* terminated container, running but never ready
    K8sPod("webhook-9", "Failed", "node-c", StartTime - (Hour - 1),
           <<K8sContainer("hook", FALSE, 0, StateTerminated("OOMKilled", "")),
             K8sContainer("side", FALSE, 0, StateRunning)>>,
           <<>>),
    \* nothing reported, one second short of a day old
    K8sPod("api", "Pending", "", StartTime - (Day - 1), <<>>, <<>>)
>>

EventPool == <<
    K8sEvent("Warning", "BackOff", Text(MsgLimit), "Pod", "api-server-7f",
             StartTime - Day, StartTime - Hour + 1, 12),
    K8sEvent("Normal", "Pulled", "image pulled", "Pod", "worker-1",
             StartTime - 30, StartTime - 30, 1),
    K8sEvent("Warning", "FailedScheduling", Text(MsgLimit + 1), "Pod", "web-0",
             StartTime - Hour, StartTime - Hour, 7),
    K8sEvent("Error", "Failed", Text(MsgKeep), "Pod", "webhook-9",
             StartTime - 10, StartTime - 5, 1),
    K8sEvent("Warning", "Unhealthy", "", "Pod", "api-db-0",
             StartTime - 2 * Hour, StartTime - Hour - 1, 3),
    K8sEvent("Error", "FailedMount", Text(2 * MsgLimit), "Pod", "cache-1",
             StartTime - Hour + 2, StartTime, 2),
    K8sEvent("Normal", "Killing", Text(MsgLimit + 2), "Pod", "ap",
             StartTime - 2 * Day, StartTime - Day, 1)
>>

PodListings == SubSeqsOf(PodPool, MaxPods)
EventListings == SubSeqsOf(EventPool, MaxEvents)
WorkloadLists == {<<>>, <<"api">>, <<"web", "api-">>, <<"worker-10", "">>}

-----------------------------------------------------------------------------
(* internal/k8s/aggregator.go *)

\* mutant: only the first prefix of the list is tried
matchesWorkload_firstOnly(pod, wls) ==
    /\ Len(pod.name) >= Len(wls[1])
    /\ SubSeq(pod.name, 1, Len(wls[1])) = wls[1]

\* pod.Name[:len(workload)] == workload, guarded by the length test
matchesWorkload(pod, wls) ==
    \E i \in 1..Len(wls) :
        /\ Len(pod.name) >= Len(wls[i])
        /\ SubSeq(pod.name, 1, Len(wls[i])) = wls[i]

\* mutant: a waiting or terminated indicator counts only with a reason
containerState_needsReason(cs) ==
    IF cs.state.running THEN [state |-> "Running", reason |-> "", message |-> ""]
    ELSE IF cs.state.waiting.set /\ cs.state.waiting.reason # ""
         THEN [state |-> "Waiting", reason |-> cs.state.waiting.reason,
               message |-> cs.state.waiting.message]
    ELSE IF cs.state.terminated.set /\ cs.state.terminated.reason # ""
         THEN [state |-> "Terminated", reason |-> cs.state.terminated.reason,
               message |-> cs.state.terminated.message]
    ELSE [state |-> "", reason |-> "", message |-> ""]

containerState(cs) ==
    IF cs.state.running THEN [state |-> "Running", reason |-> "", message |-> ""]
    ELSE IF cs.state.waiting.set
         THEN [state |-> "Waiting", reason |-> cs.state.waiting.reason,
               message |-> cs.state.waiting.message]
    ELSE IF cs.state.terminated.set
         THEN [state |-> "Terminated", reason |-> cs.state.terminated.reason,
               message |-> cs.state.terminated.message]
    ELSE [state |-> "", reason |-> "", message |-> ""]

extractContainer(cs) ==
    LET st == containerState(cs)
    IN  [Name |-> cs.name, Ready |-> cs.ready, RestartCount |-> cs.restartCount,
         Image |-> cs.image, State |-> st.state, Reason |-> st.reason,
         Message |-> st.message]

\* mutant: only negative conditions are kept
keepCondition_negativeOnly(cond) == cond.status = "False"

keepCondition(cond) == cond.status = "False" \/ cond.reason # ""

\* mutant: a container counts as ready when it is running
extractPodInfo_countsRunning(pod, now) ==
    LET css == pod.containerStatuses
        readyCount == Cardinality({i \in 1..Len(css) : css[i].state.running})
        totalCount == Len(css)
        kept == SelectSeq(pod.conditions, keepCondition)
    IN  [Name |-> pod.name,
         Phase |-> pod.phase,
         NodeName |-> pod.nodeName,
         Age |-> now - pod.creationTimestamp,
         ContainerStatuses |-> [i \in 1..Len(css) |-> extractContainer(css[i])],
         Ready |-> ToString(readyCount) \o "/" \o ToString(totalCount),
         Restarts |-> SumSeq([i \in 1..Len(css) |-> css[i].restartCount]),
         Conditions |-> [i \in 1..Len(kept) |->
                            [Type |-> kept[i].type, Status |-> kept[i].status,
                             Reason |-> kept[i].reason, Message |-> kept[i].message]]]

extractPodInfo(pod, now) ==
    LET css == pod.containerStatuses
        readyCount == Cardinality({i \in 1..Len(css) : css[i].ready})
        totalCount == Len(css)
        kept == SelectSeq(pod.conditions, keepCondition)
    IN  [Name |-> pod.name,
         Phase |-> pod.phase,
         NodeName |-> pod.nodeName,
         Age |-> now - pod.creationTimestamp,
         ContainerStatuses |-> [i \in 1..Len(css) |-> extractContainer(css[i])],
         Ready |-> ToString(readyCount) \o "/" \o ToString(totalCount),
         Restarts |-> SumSeq([i \in 1..Len(css) |-> css[i].restartCount]),
         Conditions |-> [i \in 1..Len(kept) |->
                            [Type |-> kept[i].type, Status |-> kept[i].status,
                             Reason |-> kept[i].reason, Message |-> kept[i].message]]]

keepPod(pod, wls) == ~(Len(wls) > 0 /\ ~matchesWorkload(pod, wls))

collectPods(items, wls, now) ==
    LET kept == SelectSeq(items, LAMBDA pod : keepPod(pod, wls))
    IN  [i \in 1..Len(kept) |-> extractPodInfo(kept[i], now)]

\* mutant: the loop tests the type only
keepEvent_anyAge(event, cutoff) ==
    ~(event.type # "Warning" /\ event.type # "Error")

\* the loop body's two tests, against the cutoff of the call
keepEvent(event, cutoff) ==
    /\ ~(event.lastTimestamp < cutoff)
    /\ ~(event.type # "Warning" /\ event.type # "Error")

\* mutant: the cutoff is read from the running clock inside the loop
eventCutoff_perEvent(now, i) == now + (i - 1) - Hour

\* the cutoff the loop uses for its i-th item: computed once, before the loop
eventCutoff(now, i) == now - Hour

extractEvent(event) ==
    [Type |-> event.type, Reason |-> event.reason, Message |-> event.message,
     InvolvedObject |-> event.kind \o "/" \o event.name,
     FirstTimestamp |-> event.firstTimestamp,
     LastTimestamp |-> event.lastTimestamp, Count |-> event.count]

RECURSIVE collectEventsFrom(_, _, _)
collectEventsFrom(items, now, i) ==
    IF i > Len(items) THEN <<>>
    ELSE (IF keepEvent(items[i], eventCutoff(now, i))
          THEN <<extractEvent(items[i])>> ELSE <<>>)
         \o collectEventsFrom(items, now, i + 1)

collectEvents(items, now) == collectEventsFrom(items, now, 1)

NoData == [present |-> FALSE]

\* both listings answered: tPods and tEvents are the times the two loops run at
CollectDiagnostics(ns, wls, ctxName, pods, events, t0, tPods, tEvents) ==
    [present |-> TRUE,
     Namespace |-> ns,
     Workloads |-> wls,
     CollectedAt |-> t0,
     ContextName |-> ctxName,
     Pods |-> collectPods(pods, wls, tPods),
     Events |-> collectEvents(events, tEvents)]

-----------------------------------------------------------------------------
(* internal/llm/prompts.go *)

Line(k, f) == [kind |-> k, f |-> f]
NoArgs == [none |-> TRUE]

\* mutant: the count is rounded to the nearest unit instead of cut
formatDuration_rounded(d) ==
    IF d < Minute THEN ToString(d) \o "s"
    ELSE IF d < Hour THEN ToString((d + Minute \div 2) \div Minute) \o "m"
    ELSE IF d < 24 * Hour THEN ToString((d + Hour \div 2) \div Hour) \o "h"
    ELSE ToString((d + Day \div 2) \div Day) \o "d"

\* int(d.Seconds()), int(d.Minutes()), int(d.Hours()), int(d.Hours() / 24):
\* the conversion to int cuts the fraction
formatDuration(d) ==
    IF d < Minute THEN ToString(d) \o "s"
    ELSE IF d < Hour THEN ToString(d \div Minute) \o "m"
    ELSE IF d < 24 * Hour THEN ToString(d \div Hour) \o "h"
    ELSE ToString(d \div (24 * Hour)) \o "d"

\* mutant: a message of exactly MsgLimit characters is cut too
truncateMessage_atLimit(msg) ==
    IF Len(msg) >= MsgLimit THEN SubSeq(msg, 1, MsgKeep) \o Ellipsis ELSE msg

truncateMessage(msg) ==
    IF Len(msg) > MsgLimit THEN SubSeq(msg, 1, MsgKeep) \o Ellipsis ELSE msg

headerLines(d) ==
    <<Line("title", NoArgs),
      Line("context", [text |-> d.ContextName]),
      Line("namespace", [text |-> d.Namespace]),
      Line("collectionTime", [time |-> d.CollectedAt])>>
    \o (IF Len(d.Workloads) > 0
        THEN <<Line("focusedWorkloads", [text |-> Join(d.Workloads, ", ")])>>
        ELSE <<>>)

podRow(pod) ==
    Line("podRow", [name |-> pod.Name, phase |-> pod.Phase, ready |-> pod.Ready,
                    restarts |-> pod.Restarts, age |-> formatDuration(pod.Age),
                    node |-> pod.NodeName])

\* mutant: the table loop skips pods without container statuses
podSummaryLines_skipsEmpty(d) ==
    <<Line("podSummaryHeading", NoArgs)>>
    \o (IF Len(d.Pods) = 0
        THEN <<Line("noPods", NoArgs)>>
        ELSE <<Line("podTableHead", NoArgs), Line("podTableRule", NoArgs)>>
             \o Flatten([i \in 1..Len(d.Pods) |->
                            IF Len(d.Pods[i].ContainerStatuses) = 0 THEN <<>>
                            ELSE <<podRow(d.Pods[i])>>]))

podSummaryLines(d) ==
    <<Line("podSummaryHeading", NoArgs)>>
    \o (IF Len(d.Pods) = 0
        THEN <<Line("noPods", NoArgs)>>
        ELSE <<Line("podTableHead", NoArgs), Line("podTableRule", NoArgs)>>
             \o [i \in 1..Len(d.Pods) |-> podRow(d.Pods[i])])

hasIssues(pod) ==
    \E i \in 1..Len(pod.ContainerStatuses) :
        LET cs == pod.ContainerStatuses[i]
        IN  ~cs.Ready \/ cs.State # "Running" \/ cs.RestartCount > 0

\* mutant: pods are skipped only for want of container statuses
skipPodDetails_noHealthTest(pod) == Len(pod.ContainerStatuses) = 0

\* the two "continue" tests of the Container Details loop
skipPodDetails(pod) ==
    \/ Len(pod.ContainerStatuses) = 0
    \/ (~hasIssues(pod) /\ Len(pod.Conditions) = 0)

\* mutant: container messages are cut like event messages
containerLines_truncated(pod, cs) ==
    <<Line("container", [pod |-> pod.Name, name |-> cs.Name, image |-> cs.Image,
                         state |-> cs.State, ready |-> cs.Ready,
                         restartCount |-> cs.RestartCount])>>
    \o (IF cs.Reason # ""
        THEN <<Line("containerReason", [pod |-> pod.Name, name |-> cs.Name, text |-> cs.Reason])>>
        ELSE <<>>)
    \o (IF cs.Message # ""
        THEN <<Line("containerMessage", [pod |-> pod.Name, name |-> cs.Name,
                                         text |-> truncateMessage(cs.Message)])>>
        ELSE <<>>)

containerLines(pod, cs) ==
    <<Line("container", [pod |-> pod.Name, name |-> cs.Name, image |-> cs.Image,
                         state |-> cs.State, ready |-> cs.Ready,
                         restartCount |-> cs.RestartCount])>>
    \o (IF cs.Reason # ""
        THEN <<Line("containerReason", [pod |-> pod.Name, name |-> cs.Name, text |-> cs.Reason])>>
        ELSE <<>>)
    \o (IF cs.Message # ""
        THEN <<Line("containerMessage", [pod |-> pod.Name, name |-> cs.Name, text |-> cs.Message])>>
        ELSE <<>>)

conditionLines(pod) ==
    IF Len(pod.Conditions) > 0
    THEN <<Line("conditionsHead", [pod |-> pod.Name])>>
         \o [i \in 1..Len(pod.Conditions) |->
                Line("condition", [pod |-> pod.Name, type |-> pod.Conditions[i].Type,
                                   status |-> pod.Conditions[i].Status,
                                   reason |-> pod.Conditions[i].Reason,
                                   message |-> pod.Conditions[i].Message])]
    ELSE <<>>

podDetailLines(pod) ==
    IF skipPodDetails(pod) THEN <<>>
    ELSE <<Line("podSection", [pod |-> pod.Name])>>
         \o Flatten([i \in 1..Len(pod.ContainerStatuses) |->
                        containerLines(pod, pod.ContainerStatuses[i])])
         \o conditionLines(pod)

containerDetailLines(d) ==
    <<Line("containerDetailsHeading", NoArgs)>>
    \o Flatten([i \in 1..Len(d.Pods) |-> podDetailLines(d.Pods[i])])

eventRow(event) ==
    Line("eventRow", [type |-> event.Type, reason |-> event.Reason,
                      object |-> event.InvolvedObject, count |-> event.Count,
                      message |-> truncateMessage(event.Message)])

eventLines(d) ==
    <<Line("eventsHeading", NoArgs)>>
    \o (IF Len(d.Events) = 0
        THEN <<Line("noEvents", NoArgs)>>
        ELSE <<Line("eventTableHead", NoArgs), Line("eventTableRule", NoArgs)>>
             \o [i \in 1..Len(d.Events) |-> eventRow(d.Events[i])])

requestLines ==
    <<Line("requestHeading", NoArgs), Line("requestIntro", NoArgs),
      Line("askSummary", NoArgs), Line("askRootCause", NoArgs),
      Line("askRemediation", NoArgs), Line("askKubectl", NoArgs),
      Line("askPrevention", NoArgs), Line("requestFocus", NoArgs)>>

\* mutant: the events are written before the pods
BuildDiagnosticPrompt_eventsFirst(d) ==
    headerLines(d) \o eventLines(d) \o podSummaryLines(d)
    \o containerDetailLines(d) \o requestLines

BuildDiagnosticPrompt(d) ==
    headerLines(d) \o podSummaryLines(d) \o containerDetailLines(d)
    \o eventLines(d) \o requestLines

\* the lines of a report that one Sprintf format wrote
LinesOf(report, k) == SelectSeq(report, LAMBDA l : l.kind = k)

-----------------------------------------------------------------------------
(* internal/k8s/client.go *)

Kubeconfig(ok, cur, ctxs) == [readable |-> ok, current |-> cur, contexts |-> ctxs]
HomeConfigs == {Kubeconfig(TRUE, "kind-dev", {"kind-dev", "staging"}),
                Kubeconfig(FALSE, "", {})}
\* the file a --kubeconfig flag names
AltConfig == Kubeconfig(TRUE, "prod", {"prod", "staging"})

\* kubeconfig == "" falls back to the file in the home directory
configFile(kubeconfig, home) == IF kubeconfig = "" THEN home ELSE AltConfig

NoSession == [open |-> FALSE, context |-> ""]

\* clientsetOk: whether kubernetes.NewForConfig accepts the loaded config
NewClient(kubeconfig, context, home, clientsetOk) ==
    LET file == configFile(kubeconfig, home)
        ctx == IF context # "" THEN context ELSE file.current
    IN  IF ~file.readable
        THEN [client |-> NoSession,
              err |-> "failed to load kubeconfig: invalid configuration: no configuration has been provided"]
        ELSE IF ctx \notin file.contexts
        THEN [client |-> NoSession,
              err |-> "failed to load kubeconfig: context \"" \o ctx \o "\" does not exist"]
        ELSE IF ~clientsetOk
        THEN [client |-> NoSession,
              err |-> "failed to create clientset: invalid host"]
        ELSE [client |-> [open |-> TRUE, context |-> ctx], err |-> ""]

GetCurrentContext(kubeconfig, home) ==
    LET file == configFile(kubeconfig, home)
    IN  IF ~file.readable
        THEN [name |-> "", err |-> "failed to load kubeconfig: no configuration"]
        ELSE [name |-> file.current, err |-> ""]

-----------------------------------------------------------------------------
(* internal/llm: the providers *)

NoProvider == [name |-> "", apiKey |-> "", model |-> "", baseURL |-> ""]

NewOllamaProvider(model, baseURL) ==
    [name |-> "ollama", apiKey |-> "",
     model |-> IF model = "" THEN "llama2" ELSE model,
     baseURL |-> IF baseURL = "" THEN "http://localhost:11434" ELSE baseURL]

NewGeminiProvider(apiKey, model) ==
    [name |-> "gemini", apiKey |-> apiKey,
     model |-> IF model = "" THEN "gemini-pro" ELSE model,
     baseURL |-> "https://generativelanguage.googleapis.com/v1beta"]

NewOpenAIProvider(apiKey, model) ==
    [name |-> "openai", apiKey |-> apiKey,
     model |-> IF model = "" THEN "gpt-4" ELSE model,
     baseURL |-> "https://api.openai.com/v1"]

\* one exchange with the outside: what was asked, and what came back
Exchange(call, answer) == [call |-> call, answer |-> answer]

\* google.FindDefaultCredentials: the search for an ambient credential, which
\* leaves the process (credential files, the metadata server)
FindDefaultCredentials(adc) ==
    Exchange("find default credentials", IF adc THEN "found" ELSE "none")

\* mutant: the credential is searched before the project identifier is tested
NewVertexAIProvider_credentialsFirst(projectID, location, model, adc) ==
    IF ~adc
    THEN [provider |-> NoProvider,
          err |-> "failed to find default credentials: could not find default credentials (run 'gcloud auth application-default login')",
          lookups |-> <<FindDefaultCredentials(adc)>>]
    ELSE IF projectID = ""
    THEN [provider |-> NoProvider,
          err |-> "project ID not specified and could not be determined from gcloud config",
          lookups |-> <<FindDefaultCredentials(adc)>>]
    ELSE [provider |-> [name |-> "vertexai", apiKey |-> "",
                        model |-> IF model = "" THEN "gemini-pro" ELSE model,
                        baseURL |-> "projects/" \o projectID \o "/locations/"
                                    \o (IF location = "" THEN "us-central1" ELSE location)],
          err |-> "", lookups |-> <<FindDefaultCredentials(adc)>>]

\* adc: whether google.FindDefaultCredentials finds a credential;
\* lookups: what the constructor asked of the outside before it returned
NewVertexAIProvider(projectID, location, model, adc) ==
    IF projectID = ""
    THEN [provider |-> NoProvider,
          err |-> "project ID not specified and could not be determined from gcloud config",
          lookups |-> <<>>]
    ELSE IF ~adc
    THEN [provider |-> NoProvider,
          err |-> "failed to find default credentials: could not find default credentials (run 'gcloud auth application-default login')",
          lookups |-> <<FindDefaultCredentials(adc)>>]
    ELSE [provider |-> [name |-> "vertexai", apiKey |-> "",
                        model |-> IF model = "" THEN "gemini-pro" ELSE model,
                        baseURL |-> "projects/" \o projectID \o "/locations/"
                                    \o (IF location = "" THEN "us-central1" ELSE location)],
          err |-> "", lookups |-> <<FindDefaultCredentials(adc)>>]

NewVertexAIProviderFromEnv(e) ==
    LET projectID == IF e.VERTEX_AI_PROJECT_ID # "" THEN e.VERTEX_AI_PROJECT_ID
                     ELSE IF e.GCP_PROJECT # "" THEN e.GCP_PROJECT
                     ELSE e.GOOGLE_CLOUD_PROJECT
    IN  NewVertexAIProvider(projectID, "us-central1", "gemini-pro", e.adc)

\* the URL a provider posts to
requestURL(p) ==
    IF p.name = "ollama" THEN p.baseURL \o "/api/generate"
    ELSE IF p.name = "openai" THEN p.baseURL \o "/chat/completions"
    ELSE IF p.name = "gemini"
         THEN p.baseURL \o "/models/" \o p.model \o ":generateContent?key=" \o p.apiKey
    ELSE p.baseURL \o "/publishers/google/models/" \o p.model

\* http.NewRequestWithContext parses the URL: a URL that begins with a digit
\* has no scheme, and without a scheme the first path segment must not hold
\* a colon ("127.0.0.1:11434/api/generate" is refused)
DigitChars == {"0", "1", "2", "3", "4", "5", "6", "7", "8", "9"}
buildable(url) ==
    ~(/\ Len(url) > 0
      /\ SubSeq(url, 1, 1) \in DigitChars
      /\ Contains(Before(url, "/"), ":"))

\* the time a provider waits for its request: http.Client.Timeout, and the
\* context.WithTimeout of the Vertex AI provider
requestTimeout(p) == IF p.name = "ollama" THEN OllamaTimeout ELSE RequestTimeout

\* What the remote service can answer to the one request of Analyze;
\* "silent": it never answers; "noContent": the first candidate (choice) comes
\* without its content (message) object; "noParts": the content has no parts
AnswerKinds == {"transportError", "silent", "badStatus", "undecodable",
                "noCandidates", "noContent", "noParts", "emptyText", "text"}
AnswerText == "Restart the deployment after raising the memory limit."

\* the text of the first candidate, choice or response field of an answer
firstText(kind) == IF kind = "text" THEN AnswerText ELSE ""

emptyResponseError(p) ==
    IF p.name = "ollama" THEN "no response from Ollama"
    ELSE IF p.name = "openai" THEN "no response from API"
    ELSE IF p.name = "gemini" THEN "no response from Gemini API"
    ELSE "no response from Vertex AI"

\* mutant: only a candidate without parts counts as an empty response
isEmptyResponse_partsOnly(p, kind) ==
    IF p.name = "ollama" THEN firstText(kind) = ""
    ELSE kind = "noParts"

\* the test each provider makes on the decoded answer before it returns text
isEmptyResponse(p, kind) ==
    IF p.name = "ollama" THEN firstText(kind) = ""
    ELSE IF p.name = "openai" THEN kind = "noCandidates"
    ELSE IF p.name = "gemini" THEN kind \in {"noCandidates", "noContent", "noParts"}
    ELSE kind \in {"noCandidates", "noParts"}

\* resp.Candidates[0].Content is a pointer in the Vertex AI client's types;
\* the length test reads its Parts without asking whether it is nil
dereferencesNil(p, kind) ==
    p.name = "vertexai" /\ kind = "noContent"

\* mutant: a request that met a transport error is sent once more
requestsSent_retries(p, kind) ==
    IF ~buildable(requestURL(p)) THEN 0
    ELSE IF kind = "transportError" THEN 2
    ELSE 1

\* how many requests one Analyze hands to its client: the one client.Do
\* (GenerateContent(...).Do for Vertex AI), reached when the request was built
requestsSent(p, kind) == IF ~buildable(requestURL(p)) THEN 0 ELSE 1

Analyze(p, kind) ==
    IF ~buildable(requestURL(p))
    THEN [panic |-> FALSE, text |-> "",
          err |-> "failed to create request: parse \"" \o requestURL(p)
                  \o "\": first path segment in URL cannot contain colon"]
    ELSE IF kind = "transportError"
    THEN [panic |-> FALSE, text |-> "",
          err |-> (IF p.name = "vertexai" THEN "Vertex AI API request failed: "
                   ELSE "failed to send request: ")
                  \o "Post \"" \o requestURL(p) \o "\": dial tcp: connection refused"]
    ELSE IF kind = "silent"
    THEN [panic |-> FALSE, text |-> "",
          err |-> (IF p.name = "vertexai" THEN "Vertex AI API request failed: "
                   ELSE "failed to send request: ")
                  \o "Post \"" \o requestURL(p) \o "\": context deadline exceeded"]
    ELSE IF kind = "badStatus"
    THEN [panic |-> FALSE, text |-> "",
          err |-> IF p.name = "vertexai"
                  THEN "Vertex AI API request failed: googleapi: Error 500"
                  ELSE "API request failed with status 500: internal error"]
    ELSE IF kind = "undecodable"
    THEN [panic |-> FALSE, text |-> "",
          err |-> IF p.name = "vertexai"
                  THEN "Vertex AI API request failed: invalid character"
                  ELSE "failed to decode response: invalid character"]
    ELSE IF dereferencesNil(p, kind)
    THEN [panic |-> TRUE, text |-> "", err |-> ""]
    ELSE IF isEmptyResponse(p, kind)
    THEN [panic |-> FALSE, text |-> "", err |-> emptyResponseError(p)]
    ELSE [panic |-> FALSE, text |-> firstText(kind), err |-> ""]

-----------------------------------------------------------------------------
(* cmd/server/main.go and cmd/diagnose.go: resolving the provider *)

getEnv(e, key, fallback) == IF e[key] # "" THEN e[key] ELSE fallback

\* mutant: an identifier without a case falls back to the default provider
createLLMProvider_fallsBack(providerName, e) ==
    [provider |-> NewOllamaProvider(getEnv(e, "OLLAMA_MODEL", "mistral"),
                                    getEnv(e, "OLLAMA_BASE_URL", "http://localhost:11434")),
     err |-> "", site |-> "", lookups |-> <<>>]

createLLMProvider(providerName, e) ==
    IF providerName = "ollama"
    THEN [provider |-> NewOllamaProvider(getEnv(e, "OLLAMA_MODEL", "mistral"),
                                         getEnv(e, "OLLAMA_BASE_URL", "http://localhost:11434")),
          err |-> "", site |-> "", lookups |-> <<>>]
    ELSE IF providerName = "gemini"
    THEN IF getEnv(e, "GEMINI_API_KEY", "") = ""
         THEN [provider |-> NoProvider,
               err |-> "GEMINI_API_KEY environment variable not set", site |-> "missingKey", lookups |-> <<>>]
         ELSE [provider |-> NewGeminiProvider(getEnv(e, "GEMINI_API_KEY", ""),
                                              getEnv(e, "GEMINI_MODEL", "gemini-pro")),
               err |-> "", site |-> "", lookups |-> <<>>]
    ELSE IF providerName = "openai"
    THEN IF getEnv(e, "OPENAI_API_KEY", "") = ""
         THEN [provider |-> NoProvider,
               err |-> "OPENAI_API_KEY environment variable not set", site |-> "missingKey", lookups |-> <<>>]
         ELSE [provider |-> NewOpenAIProvider(getEnv(e, "OPENAI_API_KEY", ""), "gpt-4"),
               err |-> "", site |-> "", lookups |-> <<>>]
    ELSE IF providerName = "vertexai"
    THEN LET v == NewVertexAIProviderFromEnv(e)
         IN  IF v.err # ""
             THEN [provider |-> NoProvider,
                   err |-> "Failed to create Vertex AI provider: " \o v.err,
                   site |-> "vertexConfig", lookups |-> v.lookups]
             ELSE [provider |-> v.provider, err |-> "", site |-> "", lookups |-> v.lookups]
    ELSE [provider |-> NoProvider,
          err |-> "Unsupported LLM provider: " \o providerName
                  \o " (supported: ollama, gemini, openai, vertexai)",
          site |-> "unsupported", lookups |-> <<>>]

\* runDiagnose's API key: KUBEHELP_API_KEY, else the provider's own variable
diagAPIKey(providerName, e) ==
    IF e.KUBEHELP_API_KEY # "" THEN e.KUBEHELP_API_KEY
    ELSE IF providerName = "openai" THEN e.OPENAI_API_KEY
    ELSE IF providerName = "anthropic" THEN e.ANTHROPIC_API_KEY
    ELSE IF providerName = "gemini" THEN e.GEMINI_API_KEY
    ELSE ""

ToUpper(str) ==
    IF str = "openai" THEN "OPENAI" ELSE IF str = "gemini" THEN "GEMINI"
    ELSE IF str = "ollama" THEN "OLLAMA" ELSE IF str = "vertexai" THEN "VERTEXAI"
    ELSE IF str = "anthropic" THEN "ANTHROPIC" ELSE IF str = "llama" THEN "LLAMA"
    ELSE str

\* runDiagnose from "Get LLM provider configuration" to the provider switch
diagProvider(providerName, e) ==
    LET apiKey == diagAPIKey(providerName, e)
    IN  IF apiKey = "" /\ providerName # "ollama"
        THEN [provider |-> NoProvider,
              err |-> "API key not found. Set KUBEHELP_API_KEY or "
                      \o ToUpper(providerName) \o "_API_KEY environment variable",
              site |-> "missingKey", lookups |-> <<>>]
        ELSE IF providerName = "openai"
        THEN [provider |-> NewOpenAIProvider(apiKey, "gpt-4"), err |-> "", site |-> "", lookups |-> <<>>]
        ELSE IF providerName = "gemini"
        THEN [provider |-> NewGeminiProvider(apiKey, getEnv(e, "GEMINI_MODEL", "gemini-pro")),
              err |-> "", site |-> "", lookups |-> <<>>]
        ELSE IF providerName = "ollama"
        THEN [provider |-> NewOllamaProvider(getEnv(e, "OLLAMA_MODEL", "llama2"),
                                             getEnv(e, "OLLAMA_BASE_URL", "http://localhost:11434")),
              err |-> "", site |-> "", lookups |-> <<>>]
        ELSE [provider |-> NoProvider,
              err |-> "unsupported LLM provider: " \o providerName
                      \o " (supported: openai, gemini, ollama)",
              site |-> "unsupported", lookups |-> <<>>]

-----------------------------------------------------------------------------
(* What an invocation can be given *)

Env(kubehelp, openai, anthropic, gemini, vertexProject, gcloudProject, adc) ==
    [KUBEHELP_API_KEY |-> kubehelp, OPENAI_API_KEY |-> openai,
     ANTHROPIC_API_KEY |-> anthropic, GEMINI_API_KEY |-> gemini,
     GEMINI_MODEL |-> "", OLLAMA_MODEL |-> "", OLLAMA_BASE_URL |-> "",
     VERTEX_AI_PROJECT_ID |-> vertexProject, GCP_PROJECT |-> "",
     GOOGLE_CLOUD_PROJECT |-> gcloudProject, adc |-> adc]

Envs == {Env("", "", "", "", "", "", FALSE),
         Env("kh-secret", "", "", "", "", "", FALSE),
         Env("", "sk-openai", "", "AIza-gemini", "", "", FALSE),
         Env("", "", "sk-ant", "", "", "", TRUE),
         Env("", "", "", "", "proj-1", "", TRUE),
         Env("", "", "", "", "", "proj-2", FALSE),
         Env("", "", "", "AIza-gemini", "", "", TRUE),
         Env("kh-secret", "sk-openai", "sk-ant", "AIza-gemini", "proj-1", "proj-2", TRUE),
         \* the Ollama address given without its scheme
         [Env("", "", "", "", "", "", FALSE) EXCEPT !.OLLAMA_BASE_URL = "127.0.0.1:11434"]}

LLMIds == {"", "ollama", "gemini", "openai", "vertexai", "anthropic", "llama"}
ContextNames == {"", "staging", "nope"}

Request(method, bodyOk, ns, id, ctx, kubeconfig, wls) ==
    [method |-> method, bodyOk |-> bodyOk, namespace |-> ns, llm |-> id,
     context |-> ctx, kubeconfig |-> kubeconfig, workloads |-> wls]

\* the flags of "kubehelp diagnose"
CLIRequests ==
    {Request("", TRUE, ns, id, ctx, kc, wls) :
        ns \in {"default", "prod"}, id \in LLMIds, ctx \in ContextNames,
        kc \in {"", "alt.yaml"}, wls \in {<<>>, <<"api">>}}

\* the requests sent to /api/diagnose
ServerRequests ==
    {Request("POST", TRUE, ns, id, ctx, "", wls) :
        ns \in {"", "prod"}, id \in LLMIds, ctx \in ContextNames,
        wls \in {<<>>, <<"api">>}}
    \cup {Request("GET", TRUE, "", "ollama", "", "", <<>>),
          Request("POST", FALSE, "", "", "", "", <<>>)}

\* the identifiers each entry point's provider switch has a case for
Recognized(e) ==
    IF e = "server" THEN {"ollama", "gemini", "openai", "vertexai"}
    ELSE {"openai", "gemini", "ollama"}

-----------------------------------------------------------------------------
(* The orchestrators: runDiagnose and diagnoseHandler, stage by stage *)

StageOrder == <<"open", "collect", "compile", "provider", "analyze">>

NoResult ==
    [done |-> FALSE, status |-> 0, json |-> FALSE, analysis |-> "",
     dataPresent |-> FALSE, error |-> "", site |-> ""]

\* respondWithError in the server; a returned error in the command
Failure(e, serverMsg, cliMsg, statusCode, site) ==
    [done |-> TRUE, status |-> IF e = "server" THEN statusCode ELSE 1,
     json |-> e = "server", analysis |-> "", dataPresent |-> FALSE,
     error |-> IF e = "server" THEN serverMsg ELSE cliMsg, site |-> site]

\* the DiagnoseResponse of a finished analysis; the command prints it
Success(e, analysis) ==
    [done |-> TRUE, status |-> IF e = "server" THEN 200 ELSE 0,
     json |-> e = "server", analysis |-> analysis, dataPresent |-> e = "server",
     error |-> "", site |-> "ok"]

Started(name, outcome) == Append(stages, [name |-> name, outcome |-> outcome])
Finished(outcome) == [stages EXCEPT ![Len(stages)].outcome = outcome]

\* the deadline of the context the entry point hands to CollectDiagnostics:
\* context.Background() in both, and NewClient sets no Timeout on the client
listDeadline(e) == NoDeadline

\* what the cluster API can do with a listing call; "silent": it never answers
ListAnswers == {"ok", "error", "silent"}

\* the namespace the invocation collects from: the --namespace flag of the
\* command; the request's field in the server, "default" when it is empty
targetNamespace(r) == IF r.namespace = "" THEN "default" ELSE r.namespace

\* one operation issued against the cluster API
ClusterCall(verb, resource, ns) == [verb |-> verb, resource |-> resource, namespace |-> ns]

\* Clientset().CoreV1().Pods(namespace).List and ...Events(namespace).List
listPodsCall(ns) == ClusterCall("list", "pods", ns)
\* mutant: the events are listed across all namespaces
listEventsCall_allNamespaces(ns) == ClusterCall("list", "events", "")

listEventsCall(ns) == ClusterCall("list", "events", ns)

\* the verbs of the cluster API that change cluster state
MutatingVerbs == {"create", "update", "patch", "delete", "deletecollection"}

\* the cluster API calls issued so far, by verb and resource
CallNames == [i \in 1..Len(calls) |-> calls[i].verb \o " " \o calls[i].resource]

\* the network call the invocation is suspended in
inFlight ==
    IF pc = "listPods" THEN "list pods"
    ELSE IF pc = "listEvents" THEN "list events"
    ELSE IF pc = "analyze" THEN "analyze"
    ELSE IF pc = "hung" THEN CallNames[Len(calls)]
    ELSE ""

Init ==
    /\ clock = StartTime
    /\ podItems \in {<<>>, SubSeq(PodPool, 1, MaxPods)}
    /\ eventItems = SubSeq(EventPool, 1, MaxEvents)
    /\ entry \in {"cli", "server"}
    /\ req \in (IF entry = "cli" THEN CLIRequests ELSE ServerRequests)
    /\ workloads = req.workloads
    /\ llm = req.llm
    /\ env \in Envs
    /\ homeConfig \in HomeConfigs
    /\ pc = IF entry = "server" THEN "receive" ELSE "open"
    /\ eventsNow = 0
    /\ data = NoData
    /\ prompt = <<>>
    /\ compiles = 0
    /\ stages = <<>>
    /\ calls = <<>>
    /\ session = NoSession
    /\ partial = NoData
    /\ provider = NoProvider
    /\ requests = 0
    /\ exchanges = <<>>
    /\ cancelled = ""
    /\ handlers = <<>>
    /\ result = NoResult

\* diagnoseHandler up to "Set defaults"
ReceiveRequest ==
    /\ pc = "receive"
    /\ IF req.method # "POST"
       THEN /\ result' = [done |-> TRUE, status |-> 405, json |-> FALSE, analysis |-> "",
                          dataPresent |-> FALSE, error |-> "Method not allowed",
                          site |-> "method"]
            /\ pc' = "done"
            /\ llm' = llm
       ELSE IF ~req.bodyOk
       THEN /\ result' = Failure(entry, "Invalid request body", "", 400, "body")
            /\ pc' = "done"
            /\ llm' = llm
       ELSE /\ llm' = IF req.llm = "" THEN "ollama" ELSE req.llm
            /\ pc' = "open"
            /\ result' = result
    /\ UNCHANGED <<dataVars, handlers, entry, req, env, homeConfig, stages, calls, session,
                   partial, provider, requests, exchanges, cancelled>>

\* k8s.NewClient
OpenAccessor ==
    /\ pc = "open"
    /\ \E clientsetOk \in BOOLEAN :
        LET r == NewClient(req.kubeconfig, req.context, homeConfig, clientsetOk)
        IN  IF r.err # ""
            THEN /\ result' = Failure(entry,
                                      "Failed to create Kubernetes client: " \o r.err,
                                      "failed to create Kubernetes client: " \o r.err,
                                      500, "client")
                 /\ stages' = Started("open", "failed")
                 /\ pc' = "done"
                 /\ session' = session
            ELSE /\ session' = r.client
                 /\ stages' = Started("open", "ok")
                 /\ pc' = "listPods"
                 /\ result' = result
    /\ UNCHANGED <<dataVars, handlers, entry, req, llm, env, homeConfig, calls, partial,
                   provider, requests, exchanges, cancelled>>

\* mutant: a failed pod listing leaves the pods empty and the collection goes on
ListPods_swallowsError ==
    /\ pc = "listPods"
    /\ calls' = Append(calls, listPodsCall(targetNamespace(req)))
    /\ \E answer \in ListAnswers, d \in {0, MaxDelay} :
        /\ clock' = clock + d
        /\ exchanges' = Append(exchanges, Exchange("list pods", answer))
        /\ stages' = Started("collect", "running")
        /\ result' = result
        /\ IF answer = "silent" /\ listDeadline(entry) = NoDeadline
           THEN /\ pc' = "hung"
                /\ partial' = partial
           ELSE /\ partial' = [present |-> TRUE, CollectedAt |-> clock,
                               ContextName |-> GetCurrentContext("", homeConfig).name,
                               tPods |-> clock + d]
                /\ pc' = "listEvents"
    /\ UNCHANGED <<podItems, eventItems, workloads, eventsNow, data, prompt, compiles,
                   handlers, entry, req, llm, env, homeConfig, session, provider, requests,
                   cancelled>>

\* CollectDiagnostics up to the end of collectPods.  A call that is never
\* answered waits for its context's deadline, and for ever when there is none.
ListPods ==
    /\ pc = "listPods"
    /\ calls' = Append(calls, listPodsCall(targetNamespace(req)))
    /\ \E answer \in ListAnswers, d \in {0, MaxDelay} :
        /\ clock' = clock + d
        /\ exchanges' = Append(exchanges, Exchange("list pods", answer))
        /\ IF answer = "silent" /\ listDeadline(entry) = NoDeadline
           THEN /\ stages' = Started("collect", "running")
                /\ pc' = "hung"
                /\ UNCHANGED <<partial, result>>
           ELSE IF answer # "ok"
           THEN /\ result' = Failure(entry,
                      "Failed to collect diagnostics: failed to collect pods: pods is forbidden",
                      "failed to collect diagnostics: failed to collect pods: pods is forbidden",
                      500, "collect")
                /\ stages' = Started("collect", "failed")
                /\ pc' = "done"
                /\ partial' = partial
           ELSE /\ partial' = [present |-> TRUE, CollectedAt |-> clock,
                               ContextName |-> GetCurrentContext("", homeConfig).name,
                               tPods |-> clock + d]
                /\ stages' = Started("collect", "running")
                /\ pc' = "listEvents"
                /\ result' = result
    /\ UNCHANGED <<podItems, eventItems, workloads, eventsNow, data, prompt, compiles,
                   handlers, entry, req, llm, env, homeConfig, session, provider, requests,
                   cancelled>>

\* mutant: a failed event listing is swallowed and the pods alone are passed on
ListEvents_ignoresError ==
    /\ pc = "listEvents"
    /\ calls' = Append(calls, listEventsCall(targetNamespace(req)))
    /\ \E ok \in BOOLEAN, d \in {0, MaxDelay} :
        /\ clock' = clock + d
        /\ exchanges' = Append(exchanges,
                               Exchange("list events", IF ok THEN "ok" ELSE "error"))
        /\ data' = CollectDiagnostics(targetNamespace(req), workloads, partial.ContextName,
                                      podItems, IF ok THEN eventItems ELSE <<>>,
                                      partial.CollectedAt, partial.tPods, clock + d)
        /\ eventsNow' = clock + d
        /\ stages' = Finished(IF ok THEN "ok" ELSE "failed")
        /\ pc' = "compile"
        /\ result' = result
    /\ UNCHANGED <<podItems, eventItems, workloads, prompt, compiles,
                   handlers, entry, req, llm, env, homeConfig, session, partial, provider,
                   requests, cancelled>>

\* collectEvents and the return of CollectDiagnostics
ListEvents ==
    /\ pc = "listEvents"
    /\ calls' = Append(calls, listEventsCall(targetNamespace(req)))
    /\ \E answer \in ListAnswers, d \in {0, MaxDelay} :
        /\ clock' = clock + d
        /\ exchanges' = Append(exchanges, Exchange("list events", answer))
        /\ IF answer = "silent" /\ listDeadline(entry) = NoDeadline
           THEN /\ pc' = "hung"
                /\ UNCHANGED <<data, eventsNow, stages, result>>
           ELSE IF answer # "ok"
           THEN /\ result' = Failure(entry,
                      "Failed to collect diagnostics: failed to collect events: events is forbidden",
                      "failed to collect diagnostics: failed to collect events: events is forbidden",
                      500, "collect")
                /\ stages' = Finished("failed")
                /\ pc' = "done"
                /\ UNCHANGED <<data, eventsNow>>
           ELSE /\ data' = CollectDiagnostics(targetNamespace(req), workloads, partial.ContextName,
                                              podItems, eventItems, partial.CollectedAt,
                                              partial.tPods, clock + d)
                /\ eventsNow' = clock + d
                /\ stages' = Finished("ok")
                /\ pc' = "compile"
                /\ result' = result
    /\ UNCHANGED <<podItems, eventItems, workloads, prompt, compiles,
                   handlers, entry, req, llm, env, homeConfig, session, partial, provider,
                   requests, cancelled>>

\* llm.BuildDiagnosticPrompt(data)
CompileReport ==
    /\ pc = "compile"
    /\ prompt' = BuildDiagnosticPrompt(data)
    /\ compiles' = compiles + 1
    /\ stages' = Started("compile", "ok")
    /\ pc' = "provider"
    /\ UNCHANGED <<clock, podItems, eventItems, workloads, eventsNow, data,
                   handlers, entry, req, llm, env, homeConfig, calls, session, partial,
                   provider, requests, exchanges, cancelled, result>>

\* createLLMProvider in the server; the key lookup and the switch in the command
ResolveProvider ==
    /\ pc = "provider"
    /\ LET r == IF entry = "server" THEN createLLMProvider(llm, env)
                ELSE diagProvider(llm, env)
       IN  /\ exchanges' = exchanges \o r.lookups
           /\ IF r.err # ""
              THEN /\ result' = Failure(entry, r.err, r.err, 400, r.site)
                   /\ stages' = Started("provider", "failed")
                   /\ pc' = "done"
                   /\ provider' = provider
              ELSE /\ provider' = r.provider
                   /\ stages' = Started("provider", "ok")
                   /\ pc' = "analyze"
                   /\ result' = result
    /\ UNCHANGED <<dataVars, handlers, entry, req, llm, env, homeConfig, calls, session,
                   partial, requests, cancelled>>

\* mutant: the server answers a failed analysis like a failed configuration
AnalyzeReport_badRequest ==
    /\ pc = "analyze"
    /\ \E kind \in AnswerKinds :
        LET r == Analyze(provider, kind)
            sent == requestsSent(provider, kind)
        IN  /\ requests' = requests + sent
            /\ exchanges' = IF sent > 0
                            THEN Append(exchanges, Exchange("analyze", kind))
                            ELSE exchanges
            /\ clock' = IF sent > 0 /\ kind = "silent"
                        THEN clock + requestTimeout(provider) ELSE clock
            /\ IF r.panic
               THEN /\ result' = result
                    /\ stages' = Started("analyze", "panicked")
                    /\ pc' = "panicked"
               ELSE IF r.err # ""
               THEN /\ result' = Failure(entry, "LLM analysis failed: " \o r.err,
                                         "LLM analysis failed: " \o r.err, 400, "analyze")
                    /\ stages' = Started("analyze", "failed")
                    /\ pc' = "done"
               ELSE /\ result' = Success(entry, r.text)
                    /\ stages' = Started("analyze", "ok")
                    /\ pc' = "done"
    /\ UNCHANGED <<podItems, eventItems, workloads, eventsNow, data, prompt, compiles,
                   handlers, entry, req, llm, env, homeConfig, calls, session, partial,
                   provider, cancelled>>

\* provider.Analyze(ctx, prompt) and the response.  A request that is never
\* answered ends when the provider's timeout has passed.  A panic inside
\* Analyze unwinds the handler (net/http recovers it and closes the
\* connection) or ends the command: nothing is reported.
AnalyzeReport ==
    /\ pc = "analyze"
    /\ \E kind \in AnswerKinds :
        LET r == Analyze(provider, kind)
            sent == requestsSent(provider, kind)
        IN  /\ requests' = requests + sent
            /\ exchanges' = IF sent > 0
                            THEN Append(exchanges, Exchange("analyze", kind))
                            ELSE exchanges
            /\ clock' = IF sent > 0 /\ kind = "silent"
                        THEN clock + requestTimeout(provider) ELSE clock
            /\ IF r.panic
               THEN /\ result' = result
                    /\ stages' = Started("analyze", "panicked")
                    /\ pc' = "panicked"
               ELSE IF r.err # ""
               THEN /\ result' = Failure(entry, "LLM analysis failed: " \o r.err,
                                         "LLM analysis failed: " \o r.err, 500, "analyze")
                    /\ stages' = Started("analyze", "failed")
                    /\ pc' = "done"
               ELSE /\ result' = Success(entry, r.text)
                    /\ stages' = Started("analyze", "ok")
                    /\ pc' = "done"
    /\ UNCHANGED <<podItems, eventItems, workloads, eventsNow, data, prompt, compiles,
                   handlers, entry, req, llm, env, homeConfig, calls, session, partial,
                   provider, cancelled>>

\* The caller of the server gives up while the handler is inside a network
\* call: the connection closes, which cancels r.Context().  The handler hands
\* context.Background() to CollectDiagnostics and to Analyze and never reads
\* r.Context(), so nothing of the invocation changes.  The command runs under
\* context.Background() as well and installs no signal handler: its caller
\* has nothing to cancel.
Cancel ==
    /\ entry = "server"
    /\ inFlight # ""
    /\ cancelled = ""
    /\ cancelled' = inFlight
    /\ UNCHANGED <<dataVars, handlers, entry, req, llm, env, homeConfig, pc, stages, calls,
                   session, partial, provider, requests, exchanges, result>>

Next ==
    \/ ReceiveRequest
    \/ OpenAccessor
    \/ ListPods
    \/ ListEvents
    \/ CompileReport
    \/ ResolveProvider
    \/ AnalyzeReport
    \/ Cancel

Spec == Init /\ [][Next]_vars

-----------------------------------------------------------------------------
(* Properties of the orchestrators *)

\* the invocation carries a backend identifier: the command always does, the
\* server once the request body is decoded
Decoded == entry = "cli" \/ (req.method = "POST" /\ req.bodyOk)

Unrecognized == Decoded /\ pc # "receive" /\ llm \notin Recognized(entry)

StageNames == [i \in 1..Len(stages) |-> stages[i].name]

\* C1 (as stated): when an invocation with an unrecognized backend identifier
\* has failed with the unsupported-backend error, no cluster listing call was
\* performed during it.
C1_NoCollectionBeforeUnsupported ==
    (Unrecognized /\ result.done /\ result.site = "unsupported") => calls = <<>>

\* C1 (amended): an invocation with an unrecognized backend identifier builds
\* no provider, sends no request to a backend and ends in a failure; the
\* identifier is examined only in the provider stage, after the accessor was
\* opened and both listings were collected: there the server fails as
\* unsupported, and the command fails for the missing API key when it finds
\* none and as unsupported when it finds one.
C1_UnrecognizedBackendFails ==
    Unrecognized =>
        /\ provider = NoProvider
        /\ requests = 0
        /\ result.done => (result.error # "" /\ result.analysis = "" /\ ~result.dataPresent)
        /\ result.site \in {"unsupported", "missingKey"} =>
            /\ CallNames = <<"list pods", "list events">>
            /\ data.present
            /\ StageNames = <<"open", "collect", "compile", "provider">>
        /\ (result.done /\ "provider" \in Range(StageNames)) =>
            result.site = IF entry = "cli" /\ diagAPIKey(llm, env) = ""
                          THEN "missingKey" ELSE "unsupported"

C1_Witness ==
    /\ Unrecognized
    /\ entry = "server"
    /\ result.done
    /\ result.site = "unsupported"
    /\ result.status = 400
    /\ Len(calls) = 2

\* C2: the stages run at most once each, in the order open, collect, compile,
\* provider, analyze; a stage is started only after every earlier one
\* succeeded, and a failed stage ends the invocation.  The work of a stage is
\* found only where the stage was started: listing calls, one compilation,
\* one provider, one request.
C2_StagesInOrder ==
    /\ StageNames = SubSeq(StageOrder, 1, Len(stages))
    /\ \A i \in 1..Len(stages) - 1 : stages[i].outcome = "ok"
    /\ (\E i \in 1..Len(stages) : stages[i].outcome = "failed") => pc = "done"
    /\ session.open <=> (Len(stages) >= 1 /\ stages[1].outcome = "ok")
    /\ CallNames = SubSeq(<<"list pods", "list events">>, 1, Len(calls))
    /\ calls # <<>> => Len(stages) >= 2
    /\ data.present <=> (Len(stages) >= 2 /\ stages[2].outcome = "ok")
    /\ compiles = (IF Len(stages) >= 3 THEN 1 ELSE 0)
    /\ provider # NoProvider <=> (Len(stages) >= 4 /\ stages[4].outcome = "ok")
    /\ requests <= (IF Len(stages) >= 5 THEN 1 ELSE 0)

C2_Witness ==
    /\ pc = "done"
    /\ Len(stages) = Len(StageOrder)
    /\ stages[Len(stages)].outcome = "failed"
    /\ requests = 1

\* C3: every result the server returns is a success (analysis text and
\* snapshot present, no error) or a failure (error text, no analysis, no
\* snapshot).
C3_TaggedResult ==
    (entry = "server" /\ result.done) =>
        \/ (result.error = "" /\ result.analysis # "" /\ result.dataPresent)
        \/ (result.error # "" /\ result.analysis = "" /\ ~result.dataPresent)

\* the outside answered the call in this way
Answered(call, answer) ==
    \E i \in 1..Len(exchanges) : exchanges[i] = Exchange(call, answer)

\* C13: when the pod listing or the event listing fails, the collection ends
\* in an error that names the failed listing and nothing of it is passed on
\* (no snapshot, no report, no request, no data in the response); a snapshot
\* exists only when both listings were answered, and then it holds both the
\* pods and the events.
C13_NoPartialSnapshot ==
    /\ (Answered("list pods", "error") \/ Answered("list events", "error")) =>
        /\ result.done
        /\ result.site = "collect"
        /\ Contains(result.error,
                    IF Answered("list pods", "error") THEN "failed to collect pods: "
                    ELSE "failed to collect events: ")
        /\ ~data.present
        /\ ~result.dataPresent
        /\ prompt = <<>>
        /\ requests = 0
    /\ data.present =>
        /\ Answered("list pods", "ok")
        /\ Answered("list events", "ok")
        /\ {"Pods", "Events"} \subseteq DOMAIN data
    /\ result.dataPresent => data.present

\* the pods were listed and extracted, then the event listing failed
C13_Witness ==
    /\ Answered("list pods", "ok")
    /\ Answered("list events", "error")
    /\ partial.present
    /\ podItems # <<>>
    /\ result.done
    /\ result.site = "collect"
    /\ ~data.present

\* the environment names no project in any of the three variables and holds
\* no ambient credential
NoVertexConfig ==
    /\ env.VERTEX_AI_PROJECT_ID = ""
    /\ env.GCP_PROJECT = ""
    /\ env.GOOGLE_CLOUD_PROJECT = ""
    /\ ~env.adc

StageRan(name) == \E i \in 1..Len(stages) : stages[i].name = name

\* C14: when the server constructs the Vertex AI backend in an environment
\* with no project identifier and no ambient credential, the construction
\* fails before anything is asked of the outside for the backend (no
\* credential search, no request), no provider exists, and the failure is
\* reported as a configuration error of the backend (status 400, the text of
\* the constructor), not as a failed analysis.
C14_VertexConfigError ==
    (entry = "server" /\ llm = "vertexai" /\ NoVertexConfig /\ StageRan("provider")) =>
        /\ result.done
        /\ result.site = "vertexConfig"
        /\ result.status = 400
        /\ result.error = "Failed to create Vertex AI provider: project ID not specified"
                          \o " and could not be determined from gcloud config"
        /\ ~Contains(result.error, "LLM analysis failed")
        /\ provider = NoProvider
        /\ requests = 0
        /\ \A i \in 1..Len(exchanges) :
               exchanges[i].call \in {"list pods", "list events"}
        /\ ~StageRan("analyze")

C14_Witness ==
    /\ entry = "server"
    /\ llm = "vertexai"
    /\ NoVertexConfig
    /\ StageRan("provider")
    /\ result.done
    /\ result.status = 400
    /\ result.site = "vertexConfig"

\* the answers that make Analyze fail after its request was sent
FailedAnswers == {"transportError", "silent", "badStatus", "undecodable", "noCandidates"}

AnalyzeExchanges == SelectSeq(exchanges, LAMBDA x : x.call = "analyze")

EmptyResponseTexts == {"no response from Ollama", "no response from API",
                       "no response from Gemini API", "no response from Vertex AI"}

\* C16: for each of the four backends, a decoded response with no candidate
\* output (no choices, no candidates, an empty response field) makes Analyze
\* return the backend's empty-response error and no text: the invocation fails
\* with that error and carries no analysis.
C16_EmptyResponseIsError ==
    Answered("analyze", "noCandidates") =>
        /\ result.done
        /\ result.analysis = ""
        /\ result.site = "analyze"
        /\ \E text \in EmptyResponseTexts :
               /\ result.error = "LLM analysis failed: " \o text
               /\ (text = "no response from Ollama") <=> (provider.name = "ollama")
               /\ (text = "no response from API") <=> (provider.name = "openai")
               /\ (text = "no response from Gemini API") <=> (provider.name = "gemini")
               /\ (text = "no response from Vertex AI") <=> (provider.name = "vertexai")

\* OpenAI answered with an empty list of choices
C16_Witness ==
    /\ Answered("analyze", "noCandidates")
    /\ provider.name = "openai"
    /\ result.done
    /\ result.error = "LLM analysis failed: no response from API"

\* C17: when the caller gave up while a listing call or the backend request
\* was in flight, the invocation does not run to completion: it ends with a
\* cancellation error and hands out neither data nor analysis.
C17_CancellationEndsPipeline ==
    (cancelled # "" /\ result.done) =>
        /\ Contains(result.error, "context canceled")
        /\ result.analysis = ""
        /\ ~result.dataPresent

\* C18: no invocation is left waiting in a network call: a listing call or a
\* backend request that is never answered ends, at its deadline, in a failure
\* of the invocation.
C18_NoCallWaitsForever ==
    /\ pc # "hung"
    /\ \A i \in 1..Len(exchanges) :
        exchanges[i].answer = "silent" => (result.done /\ result.error # "")

\* C19: the error text a finished invocation returns does not contain the
\* credential its backend was constructed with.
C19_NoCredentialInError ==
    (result.done /\ provider.apiKey # "") => ~Contains(result.error, provider.apiKey)

\* the backend the request names cannot be constructed in this environment:
\* the server has no case for it, its API key is not set, or (Vertex AI) no
\* project is named or no ambient credential is found
ConfigFailure ==
    \/ llm \notin {"ollama", "gemini", "openai", "vertexai"}
    \/ (llm = "gemini" /\ env.GEMINI_API_KEY = "")
    \/ (llm = "openai" /\ env.OPENAI_API_KEY = "")
    \/ (llm = "vertexai" /\ env.VERTEX_AI_PROJECT_ID = "" /\ env.GCP_PROJECT = ""
        /\ env.GOOGLE_CLOUD_PROJECT = "")
    \/ (llm = "vertexai" /\ ~env.adc)

C21_ReadOnlyClusterAccess ==
    /\ Len(calls) <= 2
    /\ \A i \in 1..Len(calls) :
        /\ calls[i].verb = "list"
        /\ calls[i].verb \notin MutatingVerbs
        /\ calls[i].resource = (IF i = 1 THEN "pods" ELSE "events")
        /\ req.namespace # "" => calls[i].namespace = req.namespace
        /\ req.namespace = "" => calls[i].namespace = "default"

\* an invocation on the namespace prod that listed both and then failed
C21_Witness ==
    /\ Len(calls) = 2
    /\ calls[2] = [verb |-> "list", resource |-> "events", namespace |-> "prod"]
    /\ result.done
    /\ result.error # ""

\* the backend identifiers the README and the provider guides give for --llm
DocumentedBackends == {"ollama", "gemini", "vertexai", "openai"}

\* the credentials of the selected backend, as its guide has them set
CredentialsConfigured ==
    /\ llm = "gemini" => env.GEMINI_API_KEY # ""
    /\ llm = "openai" => env.OPENAI_API_KEY # ""
    /\ llm = "vertexai" =>
           (env.VERTEX_AI_PROJECT_ID # "" \/ env.GOOGLE_CLOUD_PROJECT # "") /\ env.adc

\* C23: "kubehelp diagnose --llm X" with X one of the four documented
\* identifiers and the credentials of X configured constructs the provider X
\* and goes on to the analyze stage: once the provider stage has run, the
\* provider exists, is the one selected, and no configuration failure ended
\* the run.
C23_DocumentedBackendsAccepted ==
    (entry = "cli" /\ llm \in DocumentedBackends /\ CredentialsConfigured
        /\ StageRan("provider")) =>
        /\ provider # NoProvider
        /\ provider.name = llm
        /\ result.site \notin {"missingKey", "unsupported", "vertexConfig"}

\* C28: the context a returned snapshot records (and the report header
\* shows) is the context the accessor session was opened on, also when the
\* caller named a context or a credentials file.
C28_RecordedContextIsSessionContext ==
    (data.present /\ session.open) =>
        /\ data.ContextName = session.context
        /\ prompt # <<>> => LinesOf(prompt, "context")[1].f.text = session.context

\* C29: whichever backend was asked, an Analyze that returned without error
\* returned a text that is not empty: an answer whose first candidate or
\* choice holds an empty text ends the invocation with an error and without
\* analysis, and no invocation succeeds with an empty analysis.
C29_NoEmptyAnalysis ==
    /\ Answered("analyze", "emptyText") =>
           (result.done /\ result.error # "" /\ result.analysis = "")
    /\ (result.done /\ StageRan("analyze") /\ result.error = "") =>
           result.analysis # ""

\* C30: whatever a backend answers with a success status, Analyze returns a
\* text or an error and never aborts: once the analyze stage has run, the
\* invocation is finished and has reported an analysis or an error.
C30_AnalyzeNeverAborts ==
    /\ pc # "panicked"
    /\ StageRan("analyze") => (result.done /\ pc = "done")

-----------------------------------------------------------------------------
(* The collector and the report builder on their own: the namespace's      *)
(* listing and the workload filter are the inputs.                         *)

DataInit ==
    /\ clock = StartTime
    /\ podItems \in PodListings
    /\ eventItems \in EventListings
    /\ workloads \in WorkloadLists
    /\ eventsNow = 0
    /\ data = NoData
    /\ prompt = <<>>
    /\ compiles = 0
    /\ entry = "cli"
    /\ req = Request("", TRUE, "default", "ollama", "", "", workloads)
    /\ llm = "ollama"
    /\ env = Env("", "", "", "", "", "", FALSE)
    /\ homeConfig = Kubeconfig(TRUE, "kind-dev", {"kind-dev", "staging"})
    /\ pc = "idle"
    /\ stages = <<>>
    /\ calls = <<>>
    /\ session = NoSession
    /\ partial = NoData
    /\ provider = NoProvider
    /\ requests = 0
    /\ exchanges = <<>>
    /\ cancelled = ""
    /\ handlers = <<>>
    /\ result = NoResult

\* CollectDiagnostics with both listings answered; the calls take time
RunCollectDiagnostics ==
    /\ pc = "idle"
    /\ ~data.present
    /\ \E d1 \in 0..MaxDelay, d2 \in 0..MaxDelay :
        /\ data' = CollectDiagnostics("default", workloads, "kind-dev", podItems,
                                      eventItems, clock, clock + d1,
                                      clock + d1 + d2)
        /\ eventsNow' = clock + d1 + d2
        /\ clock' = clock + d1 + d2
    /\ UNCHANGED <<podItems, eventItems, workloads, prompt, compiles, pipeVars>>

RunBuildDiagnosticPrompt ==
    /\ pc = "idle"
    /\ data.present
    /\ compiles < MaxCompiles
    /\ prompt' = BuildDiagnosticPrompt(data)
    /\ compiles' = compiles + 1
    /\ UNCHANGED <<clock, podItems, eventItems, workloads, eventsNow, data, pipeVars>>

DataNext == RunCollectDiagnostics \/ RunBuildDiagnosticPrompt

DataSpec == DataInit /\ [][DataNext]_vars

-----------------------------------------------------------------------------
(* Properties of the collector and of the report *)

Names(pods) == [i \in 1..Len(pods) |-> pods[i].name]
InfoNames(pods) == [i \in 1..Len(pods) |-> pods[i].Name]
Reasons(events) == [i \in 1..Len(events) |-> events[i].reason]

\* s starts with p
StartsWith(s, p) == \E k \in 0..Len(s) : SubSeq(s, 1, k) = p

\* the event is a warning or an error last seen within the hour before now
Recent(event, now) ==
    /\ event.type \in {"Warning", "Error"}
    /\ event.lastTimestamp >= now - Hour

\* the container of a record shows trouble
Unhealthy(cs) == ~cs.Ready \/ cs.State # "Running" \/ cs.RestartCount > 0

SectionsOf(report, name) ==
    SelectSeq(LinesOf(report, "podSection"), LAMBDA l : l.f.pod = name)

\* C4: with no workload filter the pod table has one row per listed pod, in
\* order, and the event table has one row for each listed event that is a
\* Warning or an Error last seen within the hour before now, and no other row.
C4_TableRows ==
    compiles > 0 =>
        LET podRows == LinesOf(prompt, "podRow")
            evRows == LinesOf(prompt, "eventRow")
            recent == SelectSeq(eventItems, LAMBDA e : Recent(e, eventsNow))
        IN  /\ workloads = <<>> =>
                /\ Len(podRows) = Len(podItems)
                /\ \A i \in 1..Len(podItems) : podRows[i].f.name = podItems[i].name
            /\ Len(evRows) = Len(recent)
            /\ \A i \in 1..Len(recent) :
                /\ evRows[i].f.reason = recent[i].reason
                /\ evRows[i].f.type = recent[i].type
                /\ evRows[i].f.count = recent[i].count

C4_Witness ==
    /\ compiles > 0
    /\ workloads = <<>>
    /\ Len(podItems) = MaxPods
    /\ Len(eventItems) = MaxEvents
    /\ Len(LinesOf(prompt, "eventRow")) = 1

\* C5: collectEvents keeps an event exactly when it is a Warning or an Error
\* whose lastSeen is not before the one cutoff of the call, now minus one hour
\* (lastSeen equal to the cutoff is kept); the kept events keep their order.
C5_EventFilter ==
    data.present =>
        /\ Reasons(SelectSeq(eventItems, LAMBDA e : Recent(e, eventsNow)))
             = [i \in 1..Len(data.Events) |-> data.Events[i].Reason]
        /\ \A i \in 1..Len(data.Events) :
             /\ data.Events[i].LastTimestamp >= eventsNow - Hour
             /\ data.Events[i].Type \in {"Warning", "Error"}

C5_Witness ==
    /\ data.present
    /\ \E i \in 1..Len(eventItems) :
        /\ eventItems[i].lastTimestamp = eventsNow - Hour
        /\ \E j \in 1..Len(data.Events) : data.Events[j].Reason = eventItems[i].reason
    /\ \E i \in 1..Len(eventItems) :
        /\ eventItems[i].type = "Warning"
        /\ eventItems[i].lastTimestamp < eventsNow - Hour
    /\ Len(data.Events) < Len(eventItems)

\* C6: every pod of the snapshot with a retained condition or a container
\* that shows trouble has exactly one detail section in the report, also
\* when its container-status list is empty.
C6_UnhealthyPodHasSection ==
    compiles > 0 =>
        \A i \in 1..Len(data.Pods) :
            LET pod == data.Pods[i]
            IN  (\/ Len(pod.Conditions) > 0
                 \/ \E j \in 1..Len(pod.ContainerStatuses) :
                        Unhealthy(pod.ContainerStatuses[j]))
                => Len(SectionsOf(prompt, pod.Name)) = 1

\* C7: a pod whose containers are all ready, Running and never restarted
\* and that has no retained condition has no detail section (no line of the
\* Container Details part names it), the second time the snapshot is
\* compiled as the first.
C7_HealthyPodOmitted ==
    compiles > 0 =>
        \A i \in 1..Len(data.Pods) :
            LET pod == data.Pods[i]
            IN  (/\ Len(pod.Conditions) = 0
                 /\ \A j \in 1..Len(pod.ContainerStatuses) :
                        ~Unhealthy(pod.ContainerStatuses[j]))
                => \A n \in 1..Len(prompt) :
                       prompt[n].kind \in {"podSection", "container", "containerReason",
                                           "containerMessage", "conditionsHead", "condition"}
                       => prompt[n].f.pod # pod.Name

C7_Witness ==
    /\ compiles = MaxCompiles
    /\ \E i \in 1..Len(data.Pods) :
        /\ data.Pods[i].Name = "worker-1"
        /\ data.Pods[i].ContainerStatuses # <<>>
    /\ Len(LinesOf(prompt, "podSection")) > 0

\* the texts of the kind-k lines written for container c of pod p
TextsFor(report, k, p, c) ==
    LET ls == SelectSeq(LinesOf(report, k), LAMBDA l : l.f.pod = p /\ l.f.name = c)
    IN  [i \in 1..Len(ls) |-> ls[i].f.text]

Verbatim(text) == IF text = "" THEN <<>> ELSE <<text>>

\* C8: a collected pod with a container the cluster reports as waiting has a
\* detail section, and the section shows that container as Waiting with the
\* cluster's waiting reason and waiting message, unmodified and untruncated.
C8_WaitingContainerVerbatim ==
    compiles > 0 =>
        \A i \in 1..Len(podItems) :
            \A j \in 1..Len(podItems[i].containerStatuses) :
                LET pod == podItems[i]
                    cs == pod.containerStatuses[j]
                IN  (/\ pod.name \in Range(InfoNames(data.Pods))
                     /\ ~cs.state.running
                     /\ cs.state.waiting.set)
                    => /\ Len(SectionsOf(prompt, pod.name)) = 1
                       /\ \E n \in 1..Len(prompt) :
                            /\ prompt[n].kind = "container"
                            /\ prompt[n].f.pod = pod.name
                            /\ prompt[n].f.name = cs.name
                            /\ prompt[n].f.state = "Waiting"
                       /\ TextsFor(prompt, "containerReason", pod.name, cs.name)
                            = Verbatim(cs.state.waiting.reason)
                       /\ TextsFor(prompt, "containerMessage", pod.name, cs.name)
                            = Verbatim(cs.state.waiting.message)

C8_Witness ==
    /\ compiles > 0
    /\ \E i \in 1..Len(podItems) :
        /\ Len(podItems[i].containerStatuses) = 1
        /\ podItems[i].containerStatuses[1].state.waiting.set
        /\ Len(podItems[i].containerStatuses[1].state.waiting.message) > MsgLimit
        /\ TextsFor(prompt, "containerMessage", podItems[i].name,
                    podItems[i].containerStatuses[1].name)
             = <<podItems[i].containerStatuses[1].state.waiting.message>>

C10_WorkloadFilter ==
    data.present =>
        /\ InfoNames(data.Pods)
             = Names(SelectSeq(podItems, LAMBDA pod :
                        workloads = <<>>
                        \/ \E w \in Range(workloads) : StartsWith(pod.name, w)))
        /\ workloads = <<"api">> =>
             /\ "worker-1" \notin Range(InfoNames(data.Pods))
             /\ "api-server-7f" \in Range(Names(podItems))
                  => "api-server-7f" \in Range(InfoNames(data.Pods))

C10_Witness ==
    /\ data.present
    /\ workloads = <<"api">>
    /\ Names(podItems) = <<"worker-1", "api-server-7f">>
    /\ InfoNames(data.Pods) = <<"api-server-7f">>

\* the units of an age, in seconds, and the suffix each is written with
Units == {[size |-> 1, suffix |-> "s"], [size |-> Minute, suffix |-> "m"],
          [size |-> Hour, suffix |-> "h"], [size |-> Day, suffix |-> "d"]}

\* the largest unit that fits into an age; seconds when none does
LargestUnit(age) ==
    CHOOSE u \in Units :
        /\ (u.size <= age \/ u.size = 1)
        /\ \A v \in Units : v.size <= age => v.size <= u.size

\* the ages the specification gives as examples, and how they are to be shown
AgeExamples == {<<45, "45s">>, <<90, "1m">>, <<7200, "2h">>, <<172800, "2d">>}

\* C11: the age column of every row of the pod table shows the pod's age
\* (never negative, in whole seconds) as the number of whole units of the
\* largest unit that fits (seconds under a minute, minutes under an hour,
\* hours under a day, days otherwise) followed by the unit's letter; 45 s is
\* shown as "45s", 90 s as "1m", 7200 s as "2h" and 172800 s as "2d".
C11_AgeInLargestWholeUnit ==
    prompt # <<>> =>
        LET rows == LinesOf(prompt, "podRow")
        IN  /\ Len(rows) = Len(data.Pods)
            /\ \A i \in 1..Len(rows) :
                LET age == data.Pods[i].Age
                    u == LargestUnit(age)
                IN  /\ age >= 0
                    /\ \E n \in 0..age :
                        /\ n * u.size <= age
                        /\ age < (n + 1) * u.size
                        /\ rows[i].f.age = ToString(n) \o u.suffix
                    /\ \A ex \in AgeExamples :
                        age = ex[1] => rows[i].f.age = ex[2]

\* a report whose table shows a pod that has just turned a minute old as "1m"
\* and a pod that has just turned a day old as "1d"
C11_Witness ==
    /\ prompt # <<>>
    /\ \E i, j \in 1..Len(data.Pods) :
        /\ data.Pods[i].Age = Minute
        /\ LinesOf(prompt, "podRow")[i].f.age = "1m"
        /\ data.Pods[j].Age = Day
        /\ LinesOf(prompt, "podRow")[j].f.age = "1d"

\* the number of containers of a pod record that are flagged ready
RECURSIVE ReadyContainers(_)
ReadyContainers(cs) ==
    IF cs = <<>> THEN 0
    ELSE (IF Head(cs).Ready THEN 1 ELSE 0) + ReadyContainers(Tail(cs))

\* the text is the decimal numeral of r, a slash, and the decimal numeral of t
IsFraction(text, r, t) ==
    \E k \in 1..Len(text) :
        /\ SubSeq(text, k, k) = "/"
        /\ SubSeq(text, 1, k - 1) = ToString(r)
        /\ SubSeq(text, k + 1, Len(text)) = ToString(t)

\* C12: the ready fraction of every pod record of the snapshot reads "r/t",
\* t being the length of the record's container-status sequence and r the
\* number of its containers flagged ready, with 0 <= r <= t.
C12_ReadyFraction ==
    data.present =>
        \A i \in 1..Len(data.Pods) :
            LET pod == data.Pods[i]
                t == Len(pod.ContainerStatuses)
                r == ReadyContainers(pod.ContainerStatuses)
            IN  /\ 0 <= r /\ r <= t
                /\ IsFraction(pod.Ready, r, t)
                /\ \A r2 \in 0..t, t2 \in 0..t + 1 :
                       IsFraction(pod.Ready, r2, t2) => (r2 = r /\ t2 = t)

\* a snapshot with a pod none of whose two containers is ready though one of
\* them runs, next to a pod whose two containers are both ready
C12_Witness ==
    /\ data.present
    /\ \E i, j \in 1..Len(data.Pods) :
        /\ data.Pods[i].Ready = "0/2"
        /\ \E c \in 1..2 : data.Pods[i].ContainerStatuses[c].State = "Running"
        /\ data.Pods[j].Ready = "2/2"
        /\ Len(data.Pods[j].ContainerStatuses) = 2

\* C25: no event of a returned snapshot was last seen earlier than one hour
\* before the collection timestamp the snapshot records (the timestamp is
\* taken first, the cutoff later, one hour before the time the event loop
\* starts).
C25_EventsWithinHourOfCollection ==
    data.present =>
        \A i \in 1..Len(data.Events) :
            data.Events[i].LastTimestamp >= data.CollectedAt - Hour

\* the listing took time, an event last seen exactly at the cutoff is in the
\* snapshot, and an older Warning of the listing is not
C25_Witness ==
    /\ data.present
    /\ eventsNow > data.CollectedAt
    /\ \E i \in 1..Len(data.Events) :
           data.Events[i].LastTimestamp = eventsNow - Hour
    /\ \E i \in 1..Len(eventItems) :
        /\ eventItems[i].type = "Warning"
        /\ eventItems[i].lastTimestamp < data.CollectedAt - Hour
        /\ \A j \in 1..Len(data.Events) : data.Events[j].Reason # eventItems[i].reason

\* the part of the report a line belongs to: 1 header, 2 pod summary,
\* 3 per-pod details, 4 event summary, 5 closing request
PartOf(kind) ==
    IF kind \in {"title", "context", "namespace", "collectionTime", "focusedWorkloads"} THEN 1
    ELSE IF kind \in {"podSummaryHeading", "noPods", "podTableHead", "podTableRule", "podRow"} THEN 2
    ELSE IF kind \in {"containerDetailsHeading", "podSection", "container", "containerReason",
                      "containerMessage", "conditionsHead", "condition"} THEN 3
    ELSE IF kind \in {"eventsHeading", "noEvents", "eventTableHead", "eventTableRule", "eventRow"} THEN 4
    ELSE 5

Kinds(report) == [i \in 1..Len(report) |-> report[i].kind]

\* the first line of a part of the report
FirstOfPart(report, part) ==
    report[CHOOSE i \in 1..Len(report) :
               /\ PartOf(report[i].kind) = part
               /\ \A j \in 1..(i - 1) : PartOf(report[j].kind) # part]

\* C24: the parts of a compiled report come in the fixed order header, pod
\* summary, per-pod details, event summary, closing request, each part
\* present; the header gives context, namespace and collection time, then
\* the focused workloads exactly when there are any; the closing request
\* asks for issue summary, root cause, remediation, kubectl commands and
\* prevention, in that order.
C24_ReportPartsInOrder ==
    prompt # <<>> =>
        /\ \A i \in 1..(Len(prompt) - 1) :
               PartOf(prompt[i].kind) <= PartOf(prompt[i + 1].kind)
        /\ {PartOf(prompt[i].kind) : i \in 1..Len(prompt)} = 1..5
        /\ Kinds(LinesOf(prompt, "title") \o LinesOf(prompt, "context")
                 \o LinesOf(prompt, "namespace") \o LinesOf(prompt, "collectionTime"))
               = <<"title", "context", "namespace", "collectionTime">>
        /\ SubSeq(Kinds(prompt), 1, 4) = <<"title", "context", "namespace", "collectionTime">>
        /\ (prompt[5].kind = "focusedWorkloads") <=> (workloads # <<>>)
        /\ Len(LinesOf(prompt, "focusedWorkloads")) <= 1
        /\ FirstOfPart(prompt, 2).kind = "podSummaryHeading"
        /\ FirstOfPart(prompt, 3).kind = "containerDetailsHeading"
        /\ FirstOfPart(prompt, 4).kind = "eventsHeading"
        /\ SubSeq(Kinds(prompt), Len(prompt) - 7, Len(prompt))
               = <<"requestHeading", "requestIntro", "askSummary", "askRootCause",
                   "askRemediation", "askKubectl", "askPrevention", "requestFocus">>

\* a report with focused workloads, pod rows, a pod section and event rows
C24_Witness ==
    /\ prompt # <<>>
    /\ LinesOf(prompt, "focusedWorkloads") # <<>>
    /\ LinesOf(prompt, "podRow") # <<>>
    /\ LinesOf(prompt, "podSection") # <<>>
    /\ LinesOf(prompt, "eventRow") # <<>>

\* the item of the pod listing a pod record was made from
ListedPod(name) == CHOOSE pod \in Range(podItems) : pod.name = name

\* the place of the condition of a type among the conditions the pod reports
PlaceOf(type, conds) == CHOOSE n \in 1..Len(conds) : conds[n].type = type

\* C26: a condition the pod reports is in the pod's record exactly when its
\* status is False or its reason is not empty; a True or Unknown condition
\* with an empty reason is never in it; the retained conditions carry type,
\* status, reason and message unchanged, each once, in the reported order.
C26_RetainedConditions ==
    data.present =>
        \A i \in 1..Len(data.Pods) :
            LET rec == data.Pods[i].Conditions
                conds == ListedPod(data.Pods[i].Name).conditions
            IN  /\ \A n \in 1..Len(conds) :
                       (\E k \in 1..Len(rec) :
                            rec[k] = [Type |-> conds[n].type, Status |-> conds[n].status,
                                      Reason |-> conds[n].reason,
                                      Message |-> conds[n].message])
                       <=> (conds[n].status = "False" \/ conds[n].reason # "")
                /\ \A k \in 1..Len(rec) :
                       ~(rec[k].Status \in {"True", "Unknown"} /\ rec[k].Reason = "")
                /\ \A k \in 1..Len(rec) : \E n \in 1..Len(conds) : conds[n].type = rec[k].Type
                /\ \A k, l \in 1..Len(rec) :
                       k < l => PlaceOf(rec[k].Type, conds) < PlaceOf(rec[l].Type, conds)

\* a pod that keeps its False condition and loses a True and an Unknown one
\* without reason, next to a pod that keeps a True condition for its reason
C26_Witness ==
    /\ data.present
    /\ \E i, j \in 1..Len(data.Pods) :
        /\ Len(ListedPod(data.Pods[i].Name).conditions) = 3
        /\ Len(data.Pods[i].Conditions) = 1
        /\ data.Pods[i].Conditions[1].Status = "False"
        /\ Len(data.Pods[j].Conditions) = 1
        /\ data.Pods[j].Conditions[1].Status = "True"
        /\ data.Pods[j].Conditions[1].Reason = "PodCompleted"

\* C27: the state of a container record is one of Running, Waiting,
\* Terminated or empty; it is empty exactly when the container reports none
\* of the three indicators; a record whose state is Running or empty has an
\* empty reason and an empty message.
C27_ContainerState ==
    data.present =>
        \A i \in 1..Len(data.Pods) :
            LET rec == data.Pods[i].ContainerStatuses
                css == ListedPod(data.Pods[i].Name).containerStatuses
            IN  /\ Len(rec) = Len(css)
                /\ \A k \in 1..Len(rec) :
                    /\ rec[k].State \in {"Running", "Waiting", "Terminated", ""}
                    /\ (rec[k].State = "") <=>
                           (/\ ~css[k].state.running
                            /\ ~css[k].state.waiting.set
                            /\ ~css[k].state.terminated.set)
                    /\ rec[k].State \in {"Running", ""} =>
                           (rec[k].Reason = "" /\ rec[k].Message = "")

\* a snapshot with a container waiting without a reason next to one with no
\* indicator, and a pod with a terminated and a running container
C27_Witness ==
    /\ data.present
    /\ \E i, j \in 1..Len(data.Pods) :
        /\ Len(data.Pods[i].ContainerStatuses) = 2
        /\ data.Pods[i].ContainerStatuses[1].State = "Waiting"
        /\ data.Pods[i].ContainerStatuses[1].Reason = ""
        /\ data.Pods[i].ContainerStatuses[2].State = ""
        /\ Len(data.Pods[j].ContainerStatuses) = 2
        /\ data.Pods[j].ContainerStatuses[1].State = "Terminated"
        /\ data.Pods[j].ContainerStatuses[1].Reason = "OOMKilled"
        /\ data.Pods[j].ContainerStatuses[2].State = "Running"

-----------------------------------------------------------------------------
(* The server with several requests in progress: net/http runs each         *)
(* diagnoseHandler call in a goroutine of its own.  The calls share the     *)
(* process environment, the kubeconfig file and the cluster, all of which   *)
(* they only read.  Time stands still here, so that the snapshots of two    *)
(* runs can be compared.                                                    *)

\* the locals of one diagnoseHandler call; answers: what the outside answered
\* to it so far
NewHandler(r) ==
    [req |-> r, llm |-> r.llm, pc |-> "open", session |-> NoSession,
     data |-> NoData, prompt |-> <<>>, provider |-> NoProvider,
     answers |-> <<>>, result |-> NoResult]

\* the requests the server is given side by side
ConcurrentRequests ==
    {Request("POST", TRUE, "", "", "", "", <<>>),
     Request("POST", TRUE, "prod", "gemini", "staging", "", <<"api">>),
     Request("POST", TRUE, "", "vertexai", "nope", "", <<>>),
     Request("GET", TRUE, "", "ollama", "", "", <<>>)}

\* what the outside can answer at each point of a handler
AnswersAt(at) ==
    IF at \in {"open", "listPods", "listEvents"} THEN {"ok", "error"}
    ELSE IF at = "analyze" THEN {"text", "badStatus", "emptyText"}
    ELSE {"none"}

\* mutant: the provider is built once and kept for the requests that follow
providerFor_shared(hs, i) ==
    IF \E j \in 1..Len(hs) : hs[j].provider # NoProvider
    THEN LET j == CHOOSE k \in 1..Len(hs) : hs[k].provider # NoProvider
         IN  [provider |-> hs[j].provider, err |-> "", site |-> "", lookups |-> <<>>]
    ELSE createLLMProvider(hs[i].llm, env)

\* provider, err := createLLMProvider(req.LLMProvider): a local of the call
providerFor(hs, i) == createLLMProvider(hs[i].llm, env)

\* one step of the handler i: from one call to the outside to the next
handlerStep(hs, i, answer) ==
    LET h == [hs[i] EXCEPT !.answers = Append(@, answer)]
        ns == targetNamespace(h.req)
    IN  IF h.pc = "open"
        THEN IF h.req.method # "POST"
             THEN [h EXCEPT !.pc = "done",
                            !.result = [done |-> TRUE, status |-> 405, json |-> FALSE,
                                        analysis |-> "", dataPresent |-> FALSE,
                                        error |-> "Method not allowed", site |-> "method"]]
             ELSE IF ~h.req.bodyOk
             THEN [h EXCEPT !.pc = "done",
                            !.result = Failure("server", "Invalid request body", "", 400, "body")]
             ELSE LET r == NewClient("", h.req.context, homeConfig, answer = "ok")
                      id == IF h.req.llm = "" THEN "ollama" ELSE h.req.llm
                  IN  IF r.err # ""
                      THEN [h EXCEPT !.llm = id, !.pc = "done",
                                     !.result = Failure("server",
                                         "Failed to create Kubernetes client: " \o r.err,
                                         "", 500, "client")]
                      ELSE [h EXCEPT !.llm = id, !.session = r.client, !.pc = "listPods"]
        ELSE IF h.pc = "listPods"
        THEN IF answer # "ok"
             THEN [h EXCEPT !.pc = "done",
                            !.result = Failure("server",
                                "Failed to collect diagnostics: failed to collect pods: pods is forbidden",
                                "", 500, "collect")]
             ELSE [h EXCEPT !.pc = "listEvents"]
        ELSE IF h.pc = "listEvents"
        THEN IF answer # "ok"
             THEN [h EXCEPT !.pc = "done",
                            !.result = Failure("server",
                                "Failed to collect diagnostics: failed to collect events: events is forbidden",
                                "", 500, "collect")]
             ELSE [h EXCEPT !.pc = "provider",
                            !.data = CollectDiagnostics(ns, h.req.workloads,
                                         GetCurrentContext("", homeConfig).name,
                                         podItems, eventItems, clock, clock, clock)]
        ELSE IF h.pc = "provider"
        THEN LET r == providerFor(hs, i)
             IN  IF r.err # ""
                 THEN [h EXCEPT !.pc = "done", !.prompt = BuildDiagnosticPrompt(h.data),
                                !.result = Failure("server", r.err, "", 400, r.site)]
                 ELSE [h EXCEPT !.pc = "analyze", !.prompt = BuildDiagnosticPrompt(h.data),
                                !.provider = r.provider]
        ELSE LET r == Analyze(h.provider, answer)
             IN  IF r.panic THEN [h EXCEPT !.pc = "panicked"]
                 ELSE IF r.err # ""
                 THEN [h EXCEPT !.pc = "done",
                                !.result = Failure("server", "LLM analysis failed: " \o r.err,
                                                   "", 500, "analyze")]
                 ELSE [h EXCEPT !.pc = "done", !.result = Success("server", r.text)]

ServerInit ==
    /\ clock = StartTime
    /\ podItems = SubSeq(PodPool, 1, MaxPods)
    /\ eventItems = SubSeq(EventPool, 1, MaxEvents)
    /\ workloads = <<>>
    /\ eventsNow = 0
    /\ data = NoData
    /\ prompt = <<>>
    /\ compiles = 0
    /\ entry = "server"
    /\ req = Request("POST", TRUE, "", "", "", "", <<>>)
    /\ llm = ""
    /\ env = Env("", "sk-openai", "", "AIza-gemini", "", "proj-2", FALSE)
    /\ homeConfig = Kubeconfig(TRUE, "kind-dev", {"kind-dev", "staging"})
    /\ pc = "idle"
    /\ stages = <<>>
    /\ calls = <<>>
    /\ session = NoSession
    /\ partial = NoData
    /\ provider = NoProvider
    /\ requests = 0
    /\ exchanges = <<>>
    /\ cancelled = ""
    /\ handlers \in [1..MaxHandlers -> {NewHandler(r) : r \in ConcurrentRequests}]
    /\ result = NoResult

\* the scheduler lets one of the handlers run up to its next call
HandleRequest ==
    \E i \in 1..Len(handlers) :
        /\ handlers[i].pc \notin {"done", "panicked"}
        /\ \E answer \in AnswersAt(handlers[i].pc) :
            handlers' = [handlers EXCEPT ![i] = handlerStep(handlers, i, answer)]
        /\ UNCHANGED <<dataVars, entry, req, llm, env, homeConfig, pc, stages, calls,
                       session, partial, provider, requests, exchanges, cancelled,
                       result>>

ServerNext == HandleRequest

ServerSpec == ServerInit /\ [][ServerNext]_vars

\* the same request handled with no other request in the server, given the
\* same answers in the same order
RECURSIVE RunAlone(_, _)
RunAlone(h, answers) ==
    IF answers = <<>> THEN h
    ELSE RunAlone(handlerStep(<<h>>, 1, Head(answers)), Tail(answers))

====
